---- MODULE Spec2Model ----
(***************************************************************************)
(* Observer insertion pass of torch/ao/quantization/_pt2e/prepare.py.      *)
(*                                                                         *)
(* The traced graph is a sequence of nodes (a node's id is its index).     *)
(* Nodes 1..NumNodes are the traced operations in program order, node      *)
(* NumNodes+1 is the graph's output node; nodes appended later are the     *)
(* observers the pass inserts.  An erased node keeps its index and is      *)
(* flagged.  node.meta is read-only during the pass: each field of a       *)
(* node's annotation is drawn when the pass first reads it.                *)
(***************************************************************************)
EXTENDS Integers, Sequences, FiniteSets, TLC

VARIABLES
    nodes,      \* the graph: Seq of [op, args, desc, built, erased]
    orig,       \* the argument tuples of the traced graph before the pass
    meta,       \* the annotation of the nodes already reached: [present, out, inp]
    cur,        \* the node being processed and whether it has kwargs: [node, kwargs]
    map,        \* obs_or_fq_map: <<node, 0>> or <<producer, consumer>> -> descriptor
    descs,      \* observer / fake-quantize instances created so far: Seq of [dtype, dyn]
    idx,        \* position of prepare's loop in nodes_before_observation
    pc,         \* position inside the handler of node idx
    status,     \* "running", "aborted" (an assertion failed), "returned"
    calls,      \* leaf calls of the argument rewriter made by the last input phase
    tops,       \* top-level arguments and results of the last input phase
    outInfo,    \* what the last output phase did
    collapse    \* what the last share / reuse step did

vars == <<nodes, orig, meta, cur, map, descs, idx, pc, status, calls, tops, outInfo, collapse>>

(***************************************************************************)
(* Bounds                                                                  *)
(***************************************************************************)
NumNodes == 3

OutputId == NumNodes + 1

Snapshot == 1 .. OutputId

(***************************************************************************)
(* Arguments: the tagged variant {scalar, graph value, list, tuple}        *)
(***************************************************************************)
Scalar == [kind |-> "scalar", id |-> 0, elems |-> <<>>]

NodeArg(i) == [kind |-> "node", id |-> i, elems |-> <<>>]

ListArg(es) == [kind |-> "list", id |-> 0, elems |-> es]

TupleArg(es) == [kind |-> "tuple", id |-> 0, elems |-> es]

IsSequence(arg) == arg.kind \in {"list", "tuple"}

IsNode(arg) == arg.kind = "node"

RECURSIVE Leaves(_)
RECURSIVE LeavesOfSeq(_)
\* the leaves of an argument, left to right
Leaves(arg) == IF IsSequence(arg) THEN LeavesOfSeq(arg.elems) ELSE <<arg>>

LeavesOfSeq(es) ==
    IF es = <<>> THEN <<>> ELSE Leaves(Head(es)) \o LeavesOfSeq(Tail(es))

RECURSIVE SameShape(_, _)
\* two arguments have the same container kinds, lengths and nesting
SameShape(a, b) ==
    IF IsSequence(a)
    THEN /\ b.kind = a.kind
         /\ Len(b.elems) = Len(a.elems)
         /\ \A i \in 1 .. Len(a.elems) : SameShape(a.elems[i], b.elems[i])
    ELSE ~IsSequence(b)

NodeIdsOf(args) ==
    LET ls == LeavesOfSeq(args)
    IN  {ls[i].id : i \in {j \in 1 .. Len(ls) : IsNode(ls[j])}}

(***************************************************************************)
(* Quantization specs and descriptors                                      *)
(***************************************************************************)
NoSpec == [set |-> FALSE, dtype |-> "none", dyn |-> FALSE]

StaticInt8 == [set |-> TRUE, dtype |-> "int8", dyn |-> FALSE]

DynamicInt8 == [set |-> TRUE, dtype |-> "int8", dyn |-> TRUE]

QSpecs == {NoSpec, StaticInt8, DynamicInt8}

DefaultFp32 == [dtype |-> "float", dyn |-> FALSE]

\* _get_dtype_and_is_dynamic: None resolves to (None, False)
DtypeOf(ds, d) == IF d = 0 THEN "none" ELSE ds[d].dtype

IsDynamicOf(ds, d) == IF d = 0 THEN FALSE ELSE ds[d].dyn

(***************************************************************************)
(* Collaborators of the pass (torch.ao.quantization.fx.prepare)            *)
(*                                                                         *)
(* A processing state st is [nodes, map, descs, meta, ok, calls]; ok is    *)
(* FALSE once an assertion has failed, and nothing runs after that.        *)
(***************************************************************************)
\* _is_activation_post_process_node
IsActivationPostProcessNode(ns, i) == ns[i].op = "call_module"

ObservedArg(ns, i) == ns[i].args[1]

RECURSIVE OriginOf(_, _)
\* _get_qspec_for_arg: walk back through observers to the observed value
OriginOf(ns, i) ==
    IF IsActivationPostProcessNode(ns, i) /\ IsNode(ObservedArg(ns, i))
    THEN OriginOf(ns, ObservedArg(ns, i).id)
    ELSE i

IsTraced(i) == i \in 1 .. NumNodes

\* a new observer / fake-quantize instance
NewDescriptor(st, info) ==
    [d |-> Len(st.descs) + 1, st |-> [st EXCEPT !.descs = Append(@, info)]]

\* _get_arg_as_input_act_obs_or_fq: the instance the input side of (arg, n) asks for
GetArgAsInputActObsOrFq(n, arg, st) ==
    LET o == OriginOf(st.nodes, arg.id)
        spec == IF IsTraced(o) THEN st.meta[n].inp[o] ELSE NoSpec
    IN  IF spec.set
        THEN NewDescriptor(st, [dtype |-> spec.dtype, dyn |-> spec.dyn])
        ELSE NewDescriptor(st, DefaultFp32)

RECURSIVE OutputSpecOf(_, _, _)
\* the output_qspec governing a value as produced, skipping inserted observers
OutputSpecOf(ns, m, i) ==
    IF IsTraced(i) /\ m[i].present
    THEN [known |-> TRUE, spec |-> m[i].out]
    ELSE IF IsActivationPostProcessNode(ns, i) /\ IsNode(ObservedArg(ns, i))
         THEN OutputSpecOf(ns, m, ObservedArg(ns, i).id)
         ELSE [known |-> FALSE, spec |-> NoSpec]

\* _get_output_act_obs_or_fq: the instance the output side of arg satisfies
GetOutputActObsOrFq(arg, st) ==
    LET r == OutputSpecOf(st.nodes, st.meta, arg.id)
    IN  IF ~r.known
        THEN NewDescriptor(st, DefaultFp32)
        ELSE IF r.spec.set
             THEN NewDescriptor(st, [dtype |-> r.spec.dtype, dyn |-> r.spec.dyn])
             ELSE [d |-> 0, st |-> st]

\* _insert_obs_or_fq: a new call_module node observing node i with instance d
InsertObsOrFq(i, d, st) ==
    [id |-> Len(st.nodes) + 1,
     st |-> [st EXCEPT !.nodes = Append(@, [op |-> "call_module",
                                            args |-> <<NodeArg(i)>>,
                                            desc |-> d, built |-> d,
                                            erased |-> FALSE])]]

\* obs_or_fq_map[key] = d
Register(mp, key, d) ==
    IF key \in DOMAIN mp THEN [mp EXCEPT ![key] = d] ELSE mp @@ (key :> d)

EdgeKey(producer, consumer) == <<producer, consumer>>

NodeKey(n) == <<n, 0>>

(***************************************************************************)
(* _maybe_insert_input_observer_for_arg_or_kwarg                           *)
(***************************************************************************)
\* line 69 with torch.float left out of the list of default dtypes
NeedsInputObserver_IgnoresFloat(dtype, isDynamic) ==
    isDynamic \/ dtype # "none"

\* line 69: the input side asks for something other than static float / unset
NeedsInputObserver(dtype, isDynamic) ==
    isDynamic \/ dtype \notin {"float", "none"}

\* lines 70-71: the input side asks for what the output side already is
SameRequirement(inDtype, inDynamic, outDtype, outDynamic) ==
    inDtype = outDtype /\ inDynamic = outDynamic

\* lines 72-80 with the entry keyed by the observer instead of the node it observes
ReuseProducerObserver_KeyedByObserver(n, arg, st) ==
    IF ~IsActivationPostProcessNode(st.nodes, arg.id)
    THEN [res |-> arg, st |-> [st EXCEPT !.ok = FALSE]]
    ELSE LET observed == ObservedArg(st.nodes, arg.id)
         IN  IF ~IsNode(observed) \/ NodeKey(observed.id) \notin DOMAIN st.map
             THEN [res |-> arg, st |-> [st EXCEPT !.ok = FALSE]]
             ELSE [res |-> arg,
                   st |-> [st EXCEPT !.map = Register(@, EdgeKey(arg.id, n),
                                                      st.map[NodeKey(observed.id)])]]

\* lines 72-80 with the two assertions dropped: nothing is registered when
\* the producer is not an observer or the observed node has no entry
ReuseProducerObserver_Unchecked(n, arg, st) ==
    IF ~IsActivationPostProcessNode(st.nodes, arg.id)
    THEN [res |-> arg, st |-> st]
    ELSE LET observed == ObservedArg(st.nodes, arg.id)
         IN  IF ~IsNode(observed) \/ NodeKey(observed.id) \notin DOMAIN st.map
             THEN [res |-> arg, st |-> st]
             ELSE [res |-> arg,
                   st |-> [st EXCEPT !.map = Register(@, EdgeKey(observed.id, n),
                                                      st.map[NodeKey(observed.id)])]]

\* lines 72-80: refer to the observer the producer already carries
ReuseProducerObserver(n, arg, st) ==
    IF ~IsActivationPostProcessNode(st.nodes, arg.id)
    THEN [res |-> arg, st |-> [st EXCEPT !.ok = FALSE]]
    ELSE LET observed == ObservedArg(st.nodes, arg.id)
         IN  IF ~IsNode(observed) \/ NodeKey(observed.id) \notin DOMAIN st.map
             THEN [res |-> arg, st |-> [st EXCEPT !.ok = FALSE]]
             ELSE [res |-> arg,
                   st |-> [st EXCEPT !.map = Register(@, EdgeKey(observed.id, n),
                                                      st.map[NodeKey(observed.id)])]]

\* lines 82-86 with the entry keyed by the new observer instead of arg
InsertInputObserver_KeyedByObserver(n, arg, d, st) ==
    LET new == InsertObsOrFq(arg.id, d, st)
    IN  [res |-> NodeArg(new.id),
         st |-> [new.st EXCEPT !.map = Register(@, EdgeKey(new.id, n), d)]]

\* lines 82-86: insert a new observer between arg and n
InsertInputObserver(n, arg, d, st) ==
    LET new == InsertObsOrFq(arg.id, d, st)
    IN  [res |-> NodeArg(new.id),
         st |-> [new.st EXCEPT !.map = Register(@, EdgeKey(arg.id, n), d)]]

\* what a leaf call returns, with the requirements it resolved
LeafOutcome(r, inD, outD) ==
    [res |-> r.res, st |-> r.st,
     inDtype |-> DtypeOf(r.st.descs, inD), inDynamic |-> IsDynamicOf(r.st.descs, inD),
     outDtype |-> DtypeOf(r.st.descs, outD), outDynamic |-> IsDynamicOf(r.st.descs, outD)]

\* lines 69-88: leave the argument, refer to the producer's observer, or insert one
DecideObserver(n, arg, inD, outD, st) ==
    IF NeedsInputObserver(DtypeOf(st.descs, inD), IsDynamicOf(st.descs, inD))
    THEN IF SameRequirement(DtypeOf(st.descs, inD), IsDynamicOf(st.descs, inD),
                            DtypeOf(st.descs, outD), IsDynamicOf(st.descs, outD))
         THEN ReuseProducerObserver(n, arg, st)
         ELSE InsertInputObserver(n, arg, inD, st)
    ELSE [res |-> arg, st |-> st]

\* lines 66-67, then the decision
WithOutputRequirement(n, arg, inD, asOutput) ==
    LeafOutcome(DecideObserver(n, arg, inD, asOutput.d, asOutput.st), inD, asOutput.d)

\* lines 63-64, then the rest
WithInputRequirement(n, arg, asInput) ==
    WithOutputRequirement(n, arg, asInput.d, GetOutputActObsOrFq(arg, asInput.st))

\* lines 55-88: one graph value or literal
RewriteLeaf(n, arg, st) ==
    IF ~IsNode(arg)
    THEN LeafOutcome([res |-> arg, st |-> st], 0, 0)
    ELSE WithInputRequirement(n, arg, GetArgAsInputActObsOrFq(n, arg, st))

\* the record of one leaf call kept for the properties below
CallRecord(n, arg, st, r) ==
    [node |-> n, arg |-> arg, res |-> r.res, raised |-> ~r.st.ok,
     inDtype |-> r.inDtype, inDynamic |-> r.inDynamic,
     outDtype |-> r.outDtype, outDynamic |-> r.outDynamic,
     lenBefore |-> Len(st.nodes), lenAfter |-> Len(r.st.nodes),
     mapBefore |-> st.map, mapAfter |-> r.st.map]

Logged(n, arg, st, r) ==
    [res |-> r.res, st |-> [r.st EXCEPT !.calls = Append(@, CallRecord(n, arg, st, r))]]

LoggedLeaf(n, arg, st) == Logged(n, arg, st, RewriteLeaf(n, arg, st))

RECURSIVE MaybeInsertInputObserverForArgOrKwarg(_, _, _)
RECURSIVE RewriteElements(_, _, _)

\* line 52: new_arg_to_return.append(new_inner_arg)
Collected(x, t) == [res |-> <<x>> \o t.res, st |-> t.st]

RewriteRest(n, rest, h) == Collected(h.res, RewriteElements(n, rest, h.st))

\* lines 48-52 and 113-117: the elements of a sequence, left to right
RewriteElements(n, elems, st) ==
    IF elems = <<>> \/ ~st.ok
    THEN [res |-> <<>>, st |-> st]
    ELSE RewriteRest(n, Tail(elems), MaybeInsertInputObserverForArgOrKwarg(n, Head(elems), st))

\* line 53 returning new_arg_to_return itself, always a list
Rebuilt_AsList(arg, r) == [res |-> [kind |-> "list", id |-> 0, elems |-> r.res], st |-> r.st]

\* line 53: type(arg)(new_arg_to_return)
Rebuilt(arg, r) == [res |-> [kind |-> arg.kind, id |-> 0, elems |-> r.res], st |-> r.st]

\* lines 46-53: a list or tuple is rebuilt with its own kind
RewriteSequence(n, arg, st) == Rebuilt(arg, RewriteElements(n, arg.elems, st))

\* lines 32-88
MaybeInsertInputObserverForArgOrKwarg(n, arg, st) ==
    IF IsSequence(arg) THEN RewriteSequence(n, arg, st) ELSE LoggedLeaf(n, arg, st)

(***************************************************************************)
(* _maybe_insert_input_observers_for_node                                  *)
(***************************************************************************)
\* line 119
KwargsAssertionHolds(kwargs) == ~kwargs

\* lines 119-122: the new arguments are assigned unless an assertion failed
AssignArgs(n, kwargs, args, r) ==
    [st |-> IF r.st.ok /\ KwargsAssertionHolds(kwargs)
            THEN [r.st EXCEPT !.nodes[n].args = r.res]
            ELSE [r.st EXCEPT !.ok = FALSE],
     tops |-> [i \in 1 .. Len(r.res) |-> [arg |-> args[i], res |-> r.res[i]]]]

\* lines 112-122: returns the state and the top-level arguments with their results
MaybeInsertInputObserversForNode(n, kwargs, st) ==
    AssignArgs(n, kwargs, st.nodes[n].args, RewriteElements(n, st.nodes[n].args, st))

(***************************************************************************)
(* Output observers and the share / reuse step                             *)
(***************************************************************************)
\* node.users: the live nodes that read n somewhere in their arguments
Users(ns, n) ==
    {u \in 1 .. Len(ns) : ~ns[u].erased /\ n \in NodeIdsOf(ns[u].args)}

RECURSIVE ReplaceIn(_, _, _)
\* every occurrence of a node of olds in an argument becomes node new
ReplaceIn(arg, olds, new) ==
    IF IsSequence(arg)
    THEN [arg EXCEPT !.elems = [i \in 1 .. Len(arg.elems) |-> ReplaceIn(arg.elems[i], olds, new)]]
    ELSE IF IsNode(arg) /\ arg.id \in olds THEN NodeArg(new) ELSE arg

\* Node.replace_input_with
ReplaceInputWith(args, old, new) ==
    [i \in 1 .. Len(args) |-> ReplaceIn(args[i], {old}, new)]

\* _maybe_insert_output_observer_for_node: an observer on the output of n when
\* its output_qspec is statically quantized; obs = 0 when none is needed
MaybeInsertOutputObserverForNode(n, st) ==
    LET spec == st.meta[n].out
    IN  IF spec.set /\ ~spec.dyn /\ spec.dtype \notin {"float", "none"}
        THEN LET c == NewDescriptor(st, [dtype |-> spec.dtype, dyn |-> spec.dyn])
                 s1 == [c.st EXCEPT !.map = Register(@, NodeKey(n), c.d)]
                 new == InsertObsOrFq(n, c.d, s1)
             IN  [obs |-> new.id, st |-> new.st]
        ELSE [obs |-> 0, st |-> st]

\* lines 182-186 without the test that spares the observer itself
RedirectUsers_IncludingObserver(n, obs, ns) ==
    LET origUsers == Users(ns, n)
    IN  [u \in 1 .. Len(ns) |->
            IF u \in origUsers
            THEN [ns[u] EXCEPT !.args = ReplaceInputWith(@, n, obs)]
            ELSE ns[u]]

\* lines 182-186: every user of n saved before the loop, except the observer
\* itself, is re-pointed at the observer
RedirectUsers(n, obs, ns) ==
    LET origUsers == Users(ns, n)
    IN  [u \in 1 .. Len(ns) |->
            IF u \in origUsers /\ u # obs
            THEN [ns[u] EXCEPT !.args = ReplaceInputWith(@, n, obs)]
            ELSE ns[u]]

\* line 130-136: output_is_a_tensor
OutputIsATensor(present, val) ==
    IF val # "absent" THEN present /\ val = "FakeTensor" ELSE present

\* lines 138-140 with the test for a missing annotation left out
SkipInsertingObservers_Never(present) == FALSE

\* lines 138-140: skip_inserting_input_and_output_observers
SkipInsertingObservers(present) == ~present

FirstTensorArg(args) ==
    LET cands == {i \in 1 .. Len(args) : args[i].kind # "scalar"}
    IN  IF cands = {} THEN Scalar
        ELSE args[CHOOSE i \in cands : \A j \in cands : i <= j]

RECURSIVE TraceToObserver(_, _)
\* walk up first arguments to the nearest observer; 0 when there is none
TraceToObserver(ns, arg) ==
    IF ~IsNode(arg) THEN 0
    ELSE IF IsActivationPostProcessNode(ns, arg.id) THEN arg.id
    ELSE IF ns[arg.id].op = "placeholder" \/ ns[arg.id].args = <<>> THEN 0
    ELSE TraceToObserver(ns, FirstTensorArg(ns[arg.id].args))

\* _maybe_make_input_output_share_observers: the observers on the inputs of a
\* sequence argument and the output observers of n take the instance of the
\* first input's observer; ok = FALSE when there is no such observer
MaybeMakeInputOutputShareObservers(n, ns) ==
    LET first == FirstTensorArg(ns[n].args)
        lead == IF IsSequence(first)
                THEN (IF first.elems = <<>> THEN Scalar ELSE first.elems[1])
                ELSE first
        src == TraceToObserver(ns, lead)
        others == IF IsSequence(first)
                  THEN {TraceToObserver(ns, first.elems[i]) : i \in 2 .. Len(first.elems)}
                  ELSE {}
        shared == IF 0 \in others THEN {} ELSE others \cup Users(ns, n)
    IN  IF src = 0 THEN [ok |-> FALSE, nodes |-> ns]
        ELSE [ok |-> 0 \notin others,
              nodes |-> [u \in 1 .. Len(ns) |->
                            IF u \in shared
                            THEN [ns[u] EXCEPT !.desc = ns[src].desc]
                            ELSE ns[u]]]

\* _remove_output_observer: the users of each output observer read n again and
\* the observer is erased
RemoveOutputObserver(n, ns) ==
    LET obsOfN == Users(ns, n)
    IN  [u \in 1 .. Len(ns) |->
            IF u \in obsOfN
            THEN [ns[u] EXCEPT !.erased = TRUE]
            ELSE [ns[u] EXCEPT !.args = [i \in 1 .. Len(@) |-> ReplaceIn(@[i], obsOfN, n)]]]

\* lines 191-192 without the same-graph test
ShouldShareObservers_IgnoresGraph(share, sameGraph, reuse) == share \/ reuse

\* lines 191-192
ShouldShareObservers(share, sameGraph, reuse) == (share /\ sameGraph) \/ reuse

\* lines 187-194: what the step does to the graph, and which helpers it called
ShareOrRemoveOutputObserver(n, share, sameGraph, reuse, ns) ==
    IF ShouldShareObservers(share, sameGraph, reuse)
    THEN LET m == MaybeMakeInputOutputShareObservers(n, ns)
         IN  [attempted |-> TRUE, merged |-> m.ok, removed |-> ~m.ok,
              nodes |-> IF m.ok THEN m.nodes ELSE RemoveOutputObserver(n, m.nodes)]
    ELSE [attempted |-> FALSE, merged |-> FALSE, removed |-> FALSE, nodes |-> ns]

RECURSIVE ObserveBeforeOutput(_, _)
RECURSIVE ObserveElementsBeforeOutput(_, _)
\* the boundary observer of one returned value
BoundaryObserver(new) == [res |-> NodeArg(new.id), st |-> new.st]

ObserveValue(arg, c) == BoundaryObserver(InsertObsOrFq(arg.id, c.d, c.st))

ObserveRest(rest, h) == Collected(h.res, ObserveElementsBeforeOutput(rest, h.st))

\* _maybe_insert_observers_before_graph_output: an observer ahead of every
\* returned value that requires dynamic quantization
ObserveBeforeOutput(arg, st) ==
    IF IsSequence(arg)
    THEN Rebuilt(arg, ObserveElementsBeforeOutput(arg.elems, st))
    ELSE IF IsNode(arg) /\ OutputSpecOf(st.nodes, st.meta, arg.id).spec.dyn
         THEN ObserveValue(arg, NewDescriptor(st, [dtype |-> "int8", dyn |-> TRUE]))
         ELSE [res |-> arg, st |-> st]

ObserveElementsBeforeOutput(elems, st) ==
    IF elems = <<>>
    THEN [res |-> <<>>, st |-> st]
    ELSE ObserveRest(Tail(elems), ObserveBeforeOutput(Head(elems), st))

(***************************************************************************)
(* The traced graphs the pass is run on                                    *)
(***************************************************************************)
GraphNode(op, args, d) ==
    [op |-> op, args |-> args, desc |-> d, built |-> d, erased |-> FALSE]

\* argument tuples of a call_function node k whose producers come before it
ArgShapes(k) ==
    LET P == 1 .. (k - 1)
    IN  {<<NodeArg(a)>> : a \in P}
        \cup {<<NodeArg(k - 1), NodeArg(a)>> : a \in P}
        \cup {<<TupleArg(<<NodeArg(a), ListArg(<<Scalar, NodeArg(k - 1)>>)>>), Scalar>> : a \in P}

\* node 1 is a placeholder; a later node is a call_function, or an observer
\* (call_module) that the traced graph already carries; the module that
\* call_module node k targets is instance k
NodeChoices(k) ==
    IF k = 1 THEN {GraphNode("placeholder", <<>>, 0)}
    ELSE IF k = OutputId THEN {GraphNode("output", <<NodeArg(NumNodes)>>, 0)}
    ELSE {GraphNode("call_function", as, 0) : as \in ArgShapes(k)}
         \cup {GraphNode("call_module", <<NodeArg(k - 1)>>, k)}

RECURSIVE GraphsUpTo(_)
GraphsUpTo(k) ==
    IF k = 0 THEN {<<>>}
    ELSE {Append(g, c) : g \in GraphsUpTo(k - 1), c \in NodeChoices(k)}

Graphs == GraphsUpTo(OutputId)

Unread == [present |-> FALSE, out |-> NoSpec, inp |-> [p \in 1 .. NumNodes |-> NoSpec]]

Vals == {"absent", "FakeTensor", "other"}

\* the traced values that reach n through its arguments
Producers(ns, n) == {OriginOf(ns, i) : i \in NodeIdsOf(ns[n].args)}

\* what node n may carry in meta["quantization_annotation"]: nothing, or an
\* annotation whose input_qspec_map is keyed by n's producers
Annotations(ns, n) ==
    {Unread} \cup
    {a \in [present : {TRUE}, out : QSpecs, inp : [1 .. NumNodes -> QSpecs]] :
        \A p \in 1 .. NumNodes : p \notin Producers(ns, n) => a.inp[p] = NoSpec}

NoCur == [node |-> 0, kwargs |-> FALSE]

NoOutInfo == [node |-> 0, obs |-> 0, users |-> {}, before |-> <<>>]

NoCollapse ==
    [node |-> 0, obs |-> 0, share |-> FALSE, sameGraph |-> FALSE, reuse |-> FALSE,
     attempted |-> FALSE, merged |-> FALSE, removed |-> FALSE]

Init ==
    /\ nodes \in Graphs
    /\ orig = [i \in Snapshot |-> nodes[i].args]
    /\ meta = [i \in 1 .. NumNodes |-> Unread]
    /\ cur = NoCur
    /\ map = <<>>
    /\ descs = [i \in 1 .. NumNodes |-> DefaultFp32]
    /\ idx = 1
    /\ pc = "node"
    /\ status = "running"
    /\ calls = <<>>
    /\ tops = <<>>
    /\ outInfo = NoOutInfo
    /\ collapse = NoCollapse

(***************************************************************************)
(* prepare and _maybe_insert_input_and_output_observers_for_node           *)
(*                                                                         *)
(* calls, tops, outInfo and collapse describe the handler of the node      *)
(* being processed and are cleared when the loop reaches the next node.    *)
(***************************************************************************)
Handled(op) ==
    op \in {"placeholder", "call_module", "call_method", "call_function", "get_attr"}

AtNode == status = "running" /\ pc = "node" /\ idx \in 1 .. NumNodes /\ Handled(nodes[idx].op)

StartState(m) ==
    [nodes |-> nodes, map |-> map, descs |-> descs, meta |-> m, ok |-> TRUE, calls |-> <<>>]

\* lines 129-143: a node without annotation is skipped
SkipNode ==
    /\ AtNode
    /\ \E ann \in Annotations(nodes, idx), kw \in BOOLEAN :
        /\ SkipInsertingObservers(ann.present)
        /\ meta' = [meta EXCEPT ![idx] = ann]
        /\ cur' = [node |-> idx, kwargs |-> kw]
    /\ idx' = idx + 1
    /\ calls' = <<>>
    /\ tops' = <<>>
    /\ outInfo' = NoOutInfo
    /\ collapse' = NoCollapse
    /\ UNCHANGED <<nodes, orig, map, descs, pc, status>>

InputPhaseResult(toOutput, r) ==
    /\ nodes' = r.st.nodes
    /\ map' = r.st.map
    /\ descs' = r.st.descs
    /\ calls' = r.st.calls
    /\ tops' = r.tops
    /\ status' = IF r.st.ok THEN "running" ELSE "aborted"
    /\ pc' = IF r.st.ok /\ toOutput THEN "output" ELSE "node"
    /\ idx' = IF r.st.ok /\ ~toOutput THEN idx + 1 ELSE idx

\* lines 129-160: the input phase of an annotated node
InputPhase ==
    /\ AtNode
    /\ \E ann \in Annotations(nodes, idx), kw \in BOOLEAN, val \in Vals :
        /\ ~SkipInsertingObservers(ann.present)
        /\ meta' = [meta EXCEPT ![idx] = ann]
        /\ cur' = [node |-> idx, kwargs |-> kw]
        /\ InputPhaseResult(OutputIsATensor(ann.present, val),
                            MaybeInsertInputObserversForNode(
                                idx, kw, StartState([meta EXCEPT ![idx] = ann])))
    /\ outInfo' = NoOutInfo
    /\ collapse' = NoCollapse
    /\ UNCHANGED <<orig>>

OutputPhaseResult(r) ==
    IF r.obs = 0
    THEN /\ idx' = idx + 1
         /\ pc' = "node"
         /\ UNCHANGED <<nodes, map, descs, outInfo>>
    ELSE /\ nodes' = RedirectUsers(idx, r.obs, r.st.nodes)
         /\ map' = r.st.map
         /\ descs' = r.st.descs
         /\ outInfo' = [node |-> idx, obs |-> r.obs,
                        users |-> Users(r.st.nodes, idx), before |-> r.st.nodes]
         /\ pc' = "collapse"
         /\ idx' = idx

\* lines 163-186: the output observer and the redirection of the users
OutputPhase ==
    /\ status = "running" /\ pc = "output"
    /\ OutputPhaseResult(MaybeInsertOutputObserverForNode(idx, StartState(meta)))
    /\ UNCHANGED <<orig, meta, cur, status, calls, tops, collapse>>

\* lines 187-194: share, reuse or remove the output observer
CollapsePhase ==
    /\ status = "running" /\ pc = "collapse"
    /\ \E share \in BOOLEAN, sameGraph \in BOOLEAN, reuse \in BOOLEAN :
        LET r == ShareOrRemoveOutputObserver(idx, share, sameGraph, reuse, nodes)
        IN  /\ nodes' = r.nodes
            /\ collapse' = [node |-> idx, obs |-> outInfo.obs, share |-> share,
                            sameGraph |-> sameGraph, reuse |-> reuse,
                            attempted |-> r.attempted, merged |-> r.merged,
                            removed |-> r.removed]
    /\ idx' = idx + 1
    /\ pc' = "node"
    /\ UNCHANGED <<orig, meta, cur, map, descs, status, calls, tops, outInfo>>

GraphOutputResult(r) ==
    /\ nodes' = [r.st.nodes EXCEPT ![idx].args = r.res]
    /\ descs' = r.st.descs

\* lines 216-218: the graph's output node
GraphOutput ==
    /\ status = "running" /\ pc = "node" /\ idx = OutputId
    /\ nodes[idx].op = "output"
    /\ GraphOutputResult(ObserveElementsBeforeOutput(nodes[idx].args, StartState(meta)))
    /\ idx' = idx + 1
    /\ cur' = NoCur
    /\ calls' = <<>>
    /\ tops' = <<>>
    /\ outInfo' = NoOutInfo
    /\ collapse' = NoCollapse
    /\ UNCHANGED <<orig, meta, map, pc, status>>

\* lines 220-232: the graph module is rebuilt, the state saved, the model returned
Finalize ==
    /\ status = "running" /\ pc = "node" /\ idx = OutputId + 1
    /\ status' = "returned"
    /\ UNCHANGED <<nodes, orig, meta, cur, map, descs, idx, pc, calls, tops, outInfo, collapse>>

Next ==
    \/ SkipNode
    \/ InputPhase
    \/ OutputPhase
    \/ CollapsePhase
    \/ GraphOutput
    \/ Finalize

Spec == Init /\ [][Next]_vars

(***************************************************************************)
(* Properties                                                              *)
(***************************************************************************)
NonDefaultInput(c) ==
    IsNode(c.arg) /\ (c.inDynamic \/ c.inDtype \notin {"float", "none"})

EqualRequirements(c) == c.inDtype = c.outDtype /\ c.inDynamic = c.outDynamic

ProducerIsObserver(c) == nodes[c.arg.id].op = "call_module"

\* the node feeding the observer that a call's argument is
Grandparent(c) == nodes[c.arg.id].args[1].id

\* the leaf of node n's current arguments at the position of leaf call i
CurrentLeaf(n, i) == LeavesOfSeq(nodes[n].args)[i]

\* C1: a graph-value argument whose non-default input requirement differs from
\* its output requirement gets exactly one new observer O with the argument as
\* its only input, built from the input-side descriptor; O is what the call
\* returns and what the consumer reads after the input phase, and right after
\* the call Registry[(arg, node)] is the descriptor O was built from.
C1_DifferingEdgeGetsOneObserver ==
    \A i \in DOMAIN calls :
        LET c == calls[i]
        IN  (NonDefaultInput(c) /\ ~EqualRequirements(c)) =>
                /\ c.lenAfter = c.lenBefore + 1
                /\ c.res = NodeArg(c.lenAfter)
                /\ nodes[c.lenAfter].op = "call_module"
                /\ nodes[c.lenAfter].args = <<c.arg>>
                /\ descs[nodes[c.lenAfter].built] = [dtype |-> c.inDtype, dyn |-> c.inDynamic]
                /\ EdgeKey(c.arg.id, c.node) \in DOMAIN c.mapAfter
                /\ c.mapAfter[EdgeKey(c.arg.id, c.node)] = nodes[c.lenAfter].built
                /\ (status = "running" => CurrentLeaf(c.node, i) = c.res)

C1_Witness ==
    /\ status = "running"
    /\ \E i \in DOMAIN calls :
        /\ NonDefaultInput(calls[i]) /\ ~EqualRequirements(calls[i])
        /\ calls[i].outDtype = "int8"

\* C2: an argument whose input requirement is default (static, float or unset),
\* whatever its producer's output requirement, and an argument that is not a
\* graph value, is returned as it is: no node is inserted, the Registry is not
\* touched, and the consumer still reads it after the input phase.
C2_DefaultInputLeftAlone ==
    \A i \in DOMAIN calls :
        LET c == calls[i]
        IN  ~NonDefaultInput(c) =>
                /\ c.res = c.arg
                /\ c.lenAfter = c.lenBefore
                /\ c.mapAfter = c.mapBefore
                /\ ~c.raised
                /\ (status = "running" => CurrentLeaf(c.node, i) = c.arg)

C2_Witness ==
    /\ status = "running"
    /\ \E i \in DOMAIN calls, j \in DOMAIN calls :
        /\ IsNode(calls[i].arg) /\ ~NonDefaultInput(calls[i])
        /\ calls[i].outDtype = "int8" /\ ProducerIsObserver(calls[i])
        /\ ~IsNode(calls[j].arg)

\* C3: when the non-default input requirement equals the output requirement and
\* the argument is an observer fed by a node G that has a Registry entry, the
\* call creates no node, returns the argument, and binds (G, node) to the very
\* descriptor Registry[G] holds.
C3_EqualRequirementAliasesProducer ==
    \A i \in DOMAIN calls :
        LET c == calls[i]
        IN  (/\ NonDefaultInput(c) /\ EqualRequirements(c)
             /\ ProducerIsObserver(c)
             /\ NodeKey(Grandparent(c)) \in DOMAIN c.mapBefore) =>
                /\ ~c.raised
                /\ c.lenAfter = c.lenBefore
                /\ c.res = c.arg
                /\ EdgeKey(Grandparent(c), c.node) \in DOMAIN c.mapAfter
                /\ c.mapAfter[EdgeKey(Grandparent(c), c.node)] = c.mapBefore[NodeKey(Grandparent(c))]
                /\ DOMAIN c.mapAfter = DOMAIN c.mapBefore \cup {EdgeKey(Grandparent(c), c.node)}

C3_Witness ==
    \E i \in DOMAIN calls :
        /\ NonDefaultInput(calls[i]) /\ EqualRequirements(calls[i])
        /\ ProducerIsObserver(calls[i])
        /\ NodeKey(Grandparent(calls[i])) \in DOMAIN calls[i].mapBefore
        /\ status = "running"

\* C4: the Registry only grows: no call of the rewriter removes a key or gives
\* a key that is already written a different descriptor, also when the same
\* producer occurs more than once in one consumer's arguments.
C4_RegistryNeverReassigned ==
    \A i \in DOMAIN calls :
        \A k \in DOMAIN calls[i].mapBefore :
            /\ k \in DOMAIN calls[i].mapAfter
            /\ calls[i].mapAfter[k] = calls[i].mapBefore[k]

\* the leaves of a node's arguments after node n has been replaced by node o
LeavesRedirected(ls, n, o) ==
    [j \in 1 .. Len(ls) |-> IF IsNode(ls[j]) /\ ls[j].id = n THEN NodeArg(o) ELSE ls[j]]

SameShapes(as, bs) ==
    Len(as) = Len(bs) /\ \A j \in 1 .. Len(as) : SameShape(as[j], bs[j])

\* C5: right after the redirection loop, every node that read N before the
\* loop, except the new observer O, reads O at exactly the positions where it
\* read N; O's only input is N and N's only user is O.
C5_UsersRedirectedToObserver ==
    pc = "collapse" =>
        LET n == outInfo.node
            o == outInfo.obs
        IN  /\ o \in outInfo.users
            /\ \A u \in outInfo.users \ {o} :
                /\ SameShapes(outInfo.before[u].args, nodes[u].args)
                /\ LeavesOfSeq(nodes[u].args)
                       = LeavesRedirected(LeavesOfSeq(outInfo.before[u].args), n, o)
            /\ \A u \in (1 .. Len(nodes)) \ outInfo.users : nodes[u] = outInfo.before[u]
            /\ nodes[o].args = <<NodeArg(n)>>
            /\ Users(nodes, n) = {o}

C5_Witness ==
    /\ pc = "collapse"
    /\ \E u \in outInfo.users \ {outInfo.obs} :
        LET ls == LeavesOfSeq(outInfo.before[u].args)
        IN  /\ Cardinality({j \in 1 .. Len(ls) : IsNode(ls[j]) /\ ls[j].id = outInfo.node}) >= 2
            /\ \E j \in 1 .. Len(outInfo.before[u].args) : IsSequence(outInfo.before[u].args[j])
    /\ Cardinality(outInfo.users) >= 3

\* a call that must fail: equal non-default requirements on a producer that is
\* no observer, or on an observer whose input has no Registry entry
MustRaise(c) ==
    /\ NonDefaultInput(c) /\ EqualRequirements(c)
    /\ \/ ~ProducerIsObserver(c)
       \/ NodeKey(Grandparent(c)) \notin DOMAIN c.mapBefore

Annotated(n) == n \in 1 .. NumNodes /\ meta[n].present

C6_AbortState ==
    /\ \A i \in DOMAIN calls : MustRaise(calls[i]) => (calls[i].raised /\ status = "aborted")
    /\ (Annotated(cur.node) /\ cur.kwargs) => status = "aborted"
    /\ status = "aborted" => (idx = cur.node /\ pc = "node")

\* C6: the pass aborts at once, processes no further node and never returns
\* when an argument of an annotated node has equal non-default requirements and
\* (a) its producer is not an observer or (b) the observer's input has no
\* Registry entry, or when (c) the node has kwargs.
C6_FatalAssertionsAbort == []C6_AbortState /\ [][status # "aborted"]_vars

C6_WitnessNotObserver ==
    /\ status = "aborted"
    /\ \E i \in DOMAIN calls :
        /\ NonDefaultInput(calls[i]) /\ EqualRequirements(calls[i])
        /\ ~ProducerIsObserver(calls[i])

C6_WitnessNoEntry ==
    /\ status = "aborted"
    /\ \E i \in DOMAIN calls :
        /\ NonDefaultInput(calls[i]) /\ EqualRequirements(calls[i])
        /\ ProducerIsObserver(calls[i])
        /\ NodeKey(Grandparent(calls[i])) \notin DOMAIN calls[i].mapBefore

C6_WitnessKwargs ==
    /\ status = "aborted"
    /\ cur.kwargs
    /\ \A i \in DOMAIN calls : ~calls[i].raised
    /\ \E i \in DOMAIN calls : calls[i].lenAfter > calls[i].lenBefore

\* o is the output observer the pass inserted for p
IsOutputObserverOf(o, p) ==
    /\ o > OutputId
    /\ nodes[o].op = "call_module"
    /\ ~nodes[o].erased
    /\ nodes[o].args = <<NodeArg(p)>>
    /\ NodeKey(p) \in DOMAIN map
    /\ nodes[o].built = map[NodeKey(p)]

Unannotated == {k \in 1 .. NumNodes : ~meta[k].present}

\* C7 as stated: after the pass a node without annotation has the arguments it
\* had before the pass.
C7_UnannotatedArgsIdentical ==
    status = "returned" => \A k \in Unannotated : nodes[k].args = orig[k]

\* a leaf of an unannotated node is the value it read before the pass, or the
\* output observer of that value
SameOrObserved(a, b) ==
    a = b \/ (IsNode(a) /\ IsNode(b) /\ IsOutputObserverOf(a.id, b.id))

C7_SkippedState ==
    /\ \A k \in Unannotated :
        /\ NodeKey(k) \notin DOMAIN map
        /\ \A key \in DOMAIN map : key[2] # k
        /\ \A o \in (OutputId + 1) .. Len(nodes) : ~IsOutputObserverOf(o, k)
        /\ SameShapes(orig[k], nodes[k].args)
        /\ \A j \in 1 .. Len(LeavesOfSeq(orig[k])) :
               SameOrObserved(LeavesOfSeq(nodes[k].args)[j], LeavesOfSeq(orig[k])[j])
    /\ status = "aborted" => Annotated(cur.node)

\* the step of prepare's loop over a node without annotation
SkipStep == AtNode /\ idx' = idx + 1 /\ ~meta'[idx].present

\* C7 amended: the handler of a node without annotation changes neither the
\* graph nor the Registry and cannot fail, kwargs or not; no Registry entry and
\* no output observer is ever made for the node; over the pass each of its
\* argument leaves stays the value it read, or becomes that value's output
\* observer when the producer's output phase redirects its users.
C7_UnannotatedSkipped ==
    []C7_SkippedState /\ [][SkipStep => UNCHANGED <<nodes, map, descs, status>>]_vars

C7_Witness ==
    /\ status = "returned"
    /\ \E k \in Unannotated : nodes[k].args # orig[k]
    /\ \E k \in Unannotated : nodes[k].args = orig[k] /\ orig[k] # <<>>

NonDefaultSpec(q) == q.set /\ (q.dyn \/ q.dtype \notin {"float", "none"})

NoObserverTraced == \A t \in 1 .. NumNodes : nodes[t].op # "call_module"

\* the consumer k reads, for its producer p, either an observer inserted on the
\* edge, or p's output observer with the edge bound to that observer's descriptor
EdgeObserved(l, p, k) ==
    /\ IsNode(l)
    /\ nodes[l.id].op = "call_module"
    /\ ~nodes[l.id].erased
    /\ \/ /\ ~IsOutputObserverOf(l.id, p)
          /\ OriginOf(nodes, l.id) = p
          /\ EdgeKey(nodes[l.id].args[1].id, k) \in DOMAIN map
       \/ /\ IsOutputObserverOf(l.id, p)
          /\ EdgeKey(p, k) \in DOMAIN map
          /\ map[EdgeKey(p, k)] = nodes[l.id].desc

\* C8: when prepare returns, every edge between processed nodes whose input
\* requirement is non-default has an observer on the edge that the consumer
\* reads, or a Registry entry aliasing the descriptor of the producer's output
\* observer, which the consumer reads; also after the share / reuse step.
C8_QuantizedEdgesObserved ==
    (status = "returned" /\ NoObserverTraced) =>
        \A k \in 1 .. NumNodes :
            meta[k].present =>
                \A j \in 1 .. Len(LeavesOfSeq(orig[k])) :
                    LET b == LeavesOfSeq(orig[k])[j]
                    IN  (IsNode(b) /\ NonDefaultSpec(meta[k].inp[b.id])) =>
                            EdgeObserved(LeavesOfSeq(nodes[k].args)[j], b.id, k)

\* C9: every top-level argument comes back with the same container kinds,
\* lengths and nesting; its leaves are the results of the leaf calls in the
\* same order, each call starting from the graph and Registry the one before
\* it left; at most one observer is inserted per graph-value leaf.
C9_SequenceRewrittenElementwise ==
    (calls # <<>> /\ \A i \in DOMAIN calls : ~calls[i].raised) =>
        /\ \A t \in DOMAIN tops : SameShape(tops[t].arg, tops[t].res)
        /\ LeavesOfSeq([t \in DOMAIN tops |-> tops[t].arg]) = [i \in DOMAIN calls |-> calls[i].arg]
        /\ LeavesOfSeq([t \in DOMAIN tops |-> tops[t].res]) = [i \in DOMAIN calls |-> calls[i].res]
        /\ \A i \in DOMAIN calls :
            /\ calls[i].lenAfter \in {calls[i].lenBefore, calls[i].lenBefore + 1}
            /\ ~IsNode(calls[i].arg) => calls[i].lenAfter = calls[i].lenBefore
            /\ i > 1 => /\ calls[i].lenBefore = calls[i - 1].lenAfter
                        /\ calls[i].mapBefore = calls[i - 1].mapAfter
        /\ status = "running" => nodes[cur.node].args = [t \in DOMAIN tops |-> tops[t].res]

C9_Witness ==
    /\ status = "running"
    /\ \E t \in DOMAIN tops :
        /\ tops[t].arg.kind = "tuple"
        /\ \E e \in DOMAIN tops[t].arg.elems : tops[t].arg.elems[e].kind = "list"
        /\ Cardinality({l \in DOMAIN Leaves(tops[t].res) :
                           Leaves(tops[t].res)[l] # Leaves(tops[t].arg)[l]}) = 2

\* C10: the merge is attempted exactly when (share and same graph) or reuse;
\* the output observer is removed exactly when the merge was attempted and
\* was not applicable; otherwise it is kept, still the only user of the node,
\* and the pass goes on.
C10_ShareOrRemove ==
    collapse.node # 0 =>
        /\ collapse.attempted <=> ((collapse.share /\ collapse.sameGraph) \/ collapse.reuse)
        /\ collapse.removed <=> (collapse.attempted /\ ~collapse.merged)
        /\ collapse.merged => collapse.attempted
        /\ nodes[collapse.obs].erased <=> collapse.removed
        /\ ~collapse.removed => Users(nodes, collapse.node) = {collapse.obs}
        /\ collapse.removed => collapse.obs \notin Users(nodes, collapse.node)
        /\ status = "running"

C10_Witness ==
    /\ collapse.node # 0
    /\ collapse.share /\ ~collapse.sameGraph /\ ~collapse.reuse
    /\ ~nodes[collapse.obs].erased

C10_WitnessMerged == collapse.node # 0 /\ collapse.merged

C10_WitnessRemoved == collapse.node # 0 /\ collapse.removed /\ collapse.share /\ ~collapse.reuse

====
